---- MODULE Spec2Model ----
(***************************************************************************)
(* CharmHealthAPIClient (src/src/api/api_client.py): the OAuth2 token      *)
(* lifecycle (local token, process-wide cache, per-identity lock,          *)
(* refresh), the retry/backoff policy of _make_request and the scoped      *)
(* lifecycle of the HTTP transport.                                        *)
(*                                                                         *)
(* Scheduling is asyncio's: a coroutine runs without interruption from one *)
(* suspension point to the next, so one action is the code between two     *)
(* suspension points.  The suspension points of a logical call are the     *)
(* wait for the identity's lock, the POST to the token endpoint, the HTTP  *)
(* request to the EHR and the backoff sleep.  The closing of the one-shot  *)
(* httpx client of _refresh_token is folded into the handling of the       *)
(* token response: nothing is written after it and the lock is released    *)
(* right behind it.                                                        *)
(*                                                                         *)
(* The identity provider, the EHR server and the clock are the             *)
(* environment: every response they can give is a choice of the action     *)
(* that handles it.  A task is one logical call (get/post/put/delete); the *)
(* body of an `async with` block awaits its calls before it leaves the     *)
(* block, so a scope exits only when no call is running on the instance.   *)
(***************************************************************************)
EXTENDS Integers, Sequences, FiniteSets, TLC

\* ---- bounds ------------------------------------------------------------
NumTasks == 2
NumInst == 2
NumIds == 2
MaxTime == 1
MaxRetries == 1
MaxTokens == 6
MaxPad == 1

\* ---- program constants -------------------------------------------------
Margin == 300
DefaultMaxRetries == 3
DefaultExpiresIn == 3600

Tasks == 1..NumTasks
Inst == 1..NumInst
Ids == 1..NumIds

\* expires_in of a token response: at the margin, one second over it, or
\* absent from the response (the default applies)
ExpiresInChoices == {Margin, Margin + 1, 0}
\* why a refresh grant fails: non-2xx, no access_token, transport error
RefreshFailures == {"status", "no_access_token", "request_error"}
\* what one physical attempt can end with
Outcomes == {"ok", "bad_json", "bad_method", "401", "403", "500", "neterr"}
\* the outcomes that are an exception other than HTTPStatusError and
\* RequestError
Unexpected == {"bad_json", "bad_method"}
\* the error statuses raise_for_status turns into HTTPStatusError
Statuses == {"401", "403", "500"}
Payloads == {"p1", "p2"}

NoEntry == [token |-> 0, expires_at |-> 0]
NotCold == [st |-> "no", token |-> 0, expires_at |-> 0, refreshed |-> FALSE]
NoResult == [kind |-> "none", val |-> ""]

VARIABLES
    now,                 \* time.time()
    scope,               \* per instance: "none", "failed", "made", "in", "out"
    creds,               \* per instance: the required credentials __init__ found
    client_id,           \* per instance: its identity (_token_cache_key)
    max_retries,         \* per instance
    auth_token,          \* per instance: [token, expires_at] (_auth_token, _token_expires_at)
    http_client,         \* per instance: 1 when _client holds a transport, else 0
    opened,              \* per instance: transports created (httpx.AsyncClient(...))
    closed,              \* per instance: aclose() calls made
    exitHow,             \* per instance: how its `async with` block was left
    born,                \* per instance: tokens of its identity issued before it was constructed
    shared_token_cache,  \* per identity: [token, expires_at], token 0 when absent
    shared_token_locks,  \* per lock: [made, holder, waiters]
    issued,              \* per identity: number of tokens the identity provider has issued
    lastIssued,          \* per identity: the entry its last successful refresh wrote
    answered,            \* per identity: TRUE once a refresh response was received
    poppedAt,            \* per identity: issued when a 401 last cleared its cache entry (0: never)
    rejected,            \* per identity: the tokens of the requests whose 401 was handled by an invalidation
    failedAt,            \* per identity: issued + 1 when a refresh last failed (0: never)
    pc,                  \* per task: "idle", "lock_wait", "refreshing", "http", "sleeping", "done"
    on,                  \* per task: the instance it calls
    retry_count,         \* per task
    headers,             \* per task: the bearer token of the attempt in flight
    start,               \* per task: current_time of its _get_valid_token call in progress
    cold,                \* per task: its _get_valid_token call made before any refresh answer
    attempts,            \* per task: the outcomes of the physical attempts made, in order
    invalidatedAt,       \* per task: issued when its last 401 cleared the tokens (0: none)
    sleeps,              \* per task: the asyncio.sleep durations, in order
    events,              \* per task: its start_api_call / end_api_call calls, in order
    result,              \* per task: what the logical call returned or raised
    endpoint,            \* the endpoint argument of _make_request, as its tokens
    clean_endpoint,      \* the metrics label computed from it
    response,            \* what the wrapped tool function returned
    status,              \* the completion status the tool wrapper recorded
    tool_events          \* the gauge and completion events of the tool wrapper, in order

\* the variables of the instrumentation functions
labelVars == <<endpoint, clean_endpoint>>
toolVars == <<response, status, tool_events>>
metricVars == <<labelVars, toolVars>>

\* the variables of the client, its token cache and its calls
clientVars == <<now, scope, creds, client_id, max_retries, auth_token, http_client, opened,
          closed, exitHow, born, shared_token_cache, shared_token_locks, issued,
          lastIssued, answered, poppedAt, rejected, failedAt, pc, on, retry_count, headers, start, cold, attempts,
          invalidatedAt, sleeps, events, result>>

vars == <<metricVars, now, scope, creds, client_id, max_retries, auth_token, http_client, opened,
          closed, exitHow, born, shared_token_cache, shared_token_locks, issued,
          lastIssued, answered, poppedAt, rejected, failedAt, pc, on, retry_count, headers, start, cold, attempts,
          invalidatedAt, sleeps, events, result>>

RECURSIVE Pow2(_)
Pow2(n) == IF n = 0 THEN 1 ELSE 2 * Pow2(n - 1)

\* ---- locks ---------------------------------------------------------------
\* Lock k in Ids is _shared_token_locks[k]; lock NumIds + i is instance i's
\* own _token_lock.
LockIds == 1..(NumIds + NumInst)
NoLock == [made |-> FALSE, holder |-> 0, waiters |-> <<>>]

\* a lock of one's own per instance instead of the identity's
TokenLockPerInstance(i) == NumIds + i

\* one lock for every identity
TokenLockGlobal(i) == 1

\* The lock _get_valid_token takes: _shared_token_locks.setdefault(key, Lock())
TokenLock(i) == client_id[i]

\* asyncio.Lock.acquire takes the lock at once only when it is free and
\* nobody waits for it
LockIsFree(L, l) == L[l].holder = 0 /\ L[l].waiters = <<>>

\* asyncio.Lock.release: the first waiter is woken and takes the lock when it runs
Released(L, l) == [L EXCEPT ![l].holder = 0]

\* ---- token freshness -----------------------------------------------------
\* the safety margin left out of the comparison
IsFreshNoMargin(e, t) == e.token # 0 /\ t < e.expires_at

\* a token at the margin counts as fresh
IsFreshInclusive(e, t) == e.token # 0 /\ t <= e.expires_at - Margin

\* self._auth_token and current_time < (self._token_expires_at - 300)
IsFresh(e, t) == e.token # 0 /\ t < e.expires_at - Margin


\* ---- state after construction -------------------------------------------
\* no instance is made and no call has started
NoCalls ==
    /\ now = 0
    /\ scope = [i \in Inst |-> "none"]
    /\ creds = [i \in Inst |-> {}]
    /\ client_id = [i \in Inst |-> 0]
    /\ max_retries = [i \in Inst |-> 0]
    /\ auth_token = [i \in Inst |-> NoEntry]
    /\ http_client = [i \in Inst |-> 0]
    /\ opened = [i \in Inst |-> 0]
    /\ closed = [i \in Inst |-> 0]
    /\ exitHow = [i \in Inst |-> "none"]
    /\ born = [i \in Inst |-> 0]
    /\ shared_token_cache = [k \in Ids |-> NoEntry]
    /\ shared_token_locks = [l \in LockIds |-> NoLock]
    /\ issued = [k \in Ids |-> 0]
    /\ lastIssued = [k \in Ids |-> NoEntry]
    /\ answered = [k \in Ids |-> FALSE]
    /\ poppedAt = [k \in Ids |-> 0]
    /\ rejected = [k \in Ids |-> {}]
    /\ failedAt = [k \in Ids |-> 0]
    /\ pc = [t \in Tasks |-> "idle"]
    /\ on = [t \in Tasks |-> 0]
    /\ retry_count = [t \in Tasks |-> 0]
    /\ headers = [t \in Tasks |-> 0]
    /\ start = [t \in Tasks |-> 0]
    /\ cold = [t \in Tasks |-> NotCold]
    /\ attempts = [t \in Tasks |-> <<>>]
    /\ invalidatedAt = [t \in Tasks |-> 0]
    /\ sleeps = [t \in Tasks |-> <<>>]
    /\ events = [t \in Tasks |-> <<>>]
    /\ result = [t \in Tasks |-> NoResult]

\* the label of an endpoint before it is computed
NotComputed == <<"not computed">>

\* a value that is not there: a key the dict does not have, or no result yet
Absent == [type |-> "absent", num |-> 0, str |-> <<>>]
NoResponse == [dict |-> FALSE, error |-> FALSE, code |-> Absent, message |-> Absent]

Init ==
    /\ NoCalls
    /\ endpoint = <<>>
    /\ clean_endpoint = NotComputed
    /\ response = NoResponse
    /\ status = "none"
    /\ tool_events = <<>>

Running(i) == {t \in Tasks : on[t] = i /\ pc[t] \notin {"idle", "done"}}

\* ---- the instance and its transport --------------------------------------
\* api_key, refresh_token, client_id, client_secret
RequiredCredentials == {"api_key", "refresh_token", "client_id", "client_secret"}

\* self.x = x or os.getenv(...): a credential is there when the argument or
\* the environment gives it
Effective(args, env) == args \cup env

\* the check leaves client_secret out
CredentialsValidNoSecret(c) == (RequiredCredentials \ {"client_secret"}) \subseteq c

\* all([self.api_key, self.refresh_token, self.client_id, self.client_secret])
CredentialsValid(c) == RequiredCredentials \subseteq c

\* __init__ finding the credentials c: ValueError when one is missing, and
\* then no instance exists
Construct(i, k, m, c) ==
    /\ scope[i] = "none"
    /\ \A j \in Inst : j < i => scope[j] # "none"
    /\ \A k2 \in Ids : k2 < k => \E j \in Inst : scope[j] # "none" /\ client_id[j] = k2
    /\ creds' = [creds EXCEPT ![i] = c]
    /\ IF CredentialsValid(c)
       THEN /\ scope' = [scope EXCEPT ![i] = "made"]
            /\ client_id' = [client_id EXCEPT ![i] = k]
            /\ max_retries' = [max_retries EXCEPT ![i] = m]
            /\ born' = [born EXCEPT ![i] = issued[k]]
            /\ auth_token' = [auth_token EXCEPT ![i] = NoEntry]
       ELSE /\ scope' = [scope EXCEPT ![i] = "failed"]
            /\ UNCHANGED <<client_id, max_retries, born, auth_token>>
    /\ UNCHANGED <<metricVars, events, now, http_client, opened, closed, exitHow, shared_token_cache,
                   shared_token_locks, issued, lastIssued, answered, poppedAt, rejected, failedAt, pc, on,
                   retry_count, headers, start, cold, attempts, invalidatedAt, sleeps, result>>

\* ensure_client: a transport is created only when the instance holds none
EnsuredClient(i) == [http_client EXCEPT ![i] = 1]
EnsuredOpened(i) == IF http_client[i] = 0 THEN [opened EXCEPT ![i] = @ + 1] ELSE opened

\* __aenter__
Enter(i) ==
    /\ scope[i] = "made"
    /\ scope' = [scope EXCEPT ![i] = "in"]
    /\ http_client' = EnsuredClient(i)
    /\ opened' = EnsuredOpened(i)
    /\ UNCHANGED <<metricVars, events, creds, now, client_id, max_retries, auth_token, closed, exitHow, born,
                   shared_token_cache, shared_token_locks, issued, lastIssued, answered, poppedAt, rejected, failedAt,
                   pc, on, retry_count, headers, start, cold, attempts, invalidatedAt, sleeps, result>>

\* close() that leaves the transport in place
ClosedClientKept(i) == http_client

\* close(): if self._client: await self._client.aclose(); self._client = None
ClosedClient(i) == [http_client EXCEPT ![i] = 0]
ClosedCount(i) == IF http_client[i] = 1 THEN [closed EXCEPT ![i] = @ + 1] ELSE closed

\* a close() that also drops the token of the identity
CacheClearedOnClose(C, k) == [C EXCEPT ![k] = NoEntry]

\* close() touches self._client only: the class-level cache stays
CacheAfterClose(C, k) == C

\* __aexit__, whichever way the block is left
Exit(i, how) ==
    /\ scope[i] = "in"
    /\ Running(i) = {}
    /\ scope' = [scope EXCEPT ![i] = "out"]
    /\ exitHow' = [exitHow EXCEPT ![i] = how]
    /\ http_client' = ClosedClient(i)
    /\ closed' = ClosedCount(i)
    /\ shared_token_cache' = CacheAfterClose(shared_token_cache, client_id[i])
    /\ UNCHANGED <<metricVars, events, creds, now, client_id, max_retries, auth_token, opened, born,
                   shared_token_locks, issued, lastIssued, answered, poppedAt, rejected, failedAt,
                   pc, on, retry_count, headers, start, cold, attempts, invalidatedAt, sleeps, result>>

\* close() called by the body of the block
Close(i) ==
    /\ scope[i] = "in"
    /\ Running(i) = {}
    /\ http_client' = ClosedClient(i)
    /\ closed' = ClosedCount(i)
    /\ shared_token_cache' = CacheAfterClose(shared_token_cache, client_id[i])
    /\ UNCHANGED <<metricVars, events, creds, now, scope, client_id, max_retries, auth_token, opened, exitHow,
                   born, shared_token_locks, issued, lastIssued, answered,
                   poppedAt, rejected, failedAt, pc, on, retry_count, headers, start, cold, attempts, invalidatedAt, sleeps,
                   result>>


\* ---- _get_valid_token ------------------------------------------------------
\* In the operators below A, C, L and Cd are the values of auth_token,
\* shared_token_cache, shared_token_locks and cold that the step has reached
\* when the code gets there (after a 401 has cleared the tokens, say).

\* ---- the metrics label of an endpoint -----------------------------------------
\* An endpoint is the sequence of its tokens: a "/" or a path segment.  A
\* regular expression matches character by character; a match of
\* /[0-9]{18}/ or /[0-9]{18}$ begins at a "/" and covers the whole segment
\* after it, which is then a segment of exactly 18 digits.
IdSegments == {"123456789012345678", "987654321098765432"}
Segments == IdSegments \cup {"patients", "vitals", "12345678901234567"}
Tokens == Segments \cup {"/"}

\* the endpoints given to the client begin with "/"; two segments are
\* separated by a "/"
Endpoints ==
    UNION {{e \in [1..n -> Tokens] :
                /\ e[1] = "/"
                /\ \A j \in 1..(n - 1) : e[j] # "/" => e[j + 1] = "/"} : n \in 1..MaxTokens}

\* re.sub(r'/[0-9]{18}$', '', endpoint)
SubEnd(s) ==
    IF Len(s) >= 2 /\ s[Len(s) - 1] = "/" /\ s[Len(s)] \in IdSegments
    THEN SubSeq(s, 1, Len(s) - 2)
    ELSE s

RECURSIVE SubMid(_)
\* re.sub(r'/[0-9]{18}/', '/', clean_endpoint): the matches are found from
\* left to right and do not overlap, the search going on after the "/" that
\* ends a match
SubMid(s) ==
    IF s = <<>> THEN <<>>
    ELSE IF Len(s) >= 3 /\ s[1] = "/" /\ s[2] \in IdSegments /\ s[3] = "/"
         THEN <<"/">> \o SubMid(SubSeq(s, 4, Len(s)))
         ELSE <<s[1]>> \o SubMid(Tail(s))

CleanEndpoint(s) == SubMid(SubEnd(s))

\* _make_request computes the label of its endpoint
Sanitize ==
    /\ clean_endpoint = NotComputed
    /\ clean_endpoint' = CleanEndpoint(endpoint)
    /\ UNCHANGED <<endpoint, toolVars, clientVars>>

\* ---- the status of a tool invocation ------------------------------------------
\* A string is the sequence of its characters.  A value of a response is
\* [type, num, str]: a str, an int, a bool (an int to isinstance), a float,
\* or Absent.
Letters == <<"e", "r", "o", "f", "a", "i", "l", "d", "u", "k", "x">>
Capitals == <<"E", "R", "O", "F", "A", "I", "L", "D", "U", "K", "X">>

\* str.lower() that leaves the string as it is
NotLowered(s) == s

\* str.lower()
Lower(s) ==
    [j \in DOMAIN s |->
        IF \E n \in DOMAIN Capitals : Capitals[n] = s[j]
        THEN Letters[CHOOSE n \in DOMAIN Capitals : Capitals[n] = s[j]]
        ELSE s[j]]

\* w in s
Contains(s, w) ==
    \E j \in 0..(Len(s) - Len(w)) : SubSeq(s, j + 1, j + Len(w)) = w

ErrorWord == <<"e", "r", "r", "o", "r">>
ErrorWords == {ErrorWord, <<"f", "a", "i", "l", "e", "d">>, <<"f", "a", "i", "l", "u", "r", "e">>}

IsStr(v) == v.type = "str"
\* isinstance(code, int): a bool is an int
IsInt(v) == v.type \in {"int", "bool"}

\* response.get(key, "")
Get(v) == IF v = Absent THEN [type |-> "str", num |-> 0, str |-> <<>>] ELSE v

IsSuccessfulResponse(r) ==
    IF ~r.dict THEN FALSE
    ELSE IF r.error THEN FALSE
    ELSE IF /\ r.code # Absent
            /\ \/ IsStr(r.code) /\ Contains(Lower(r.code.str), ErrorWord)
               \/ IsInt(r.code) /\ r.code.num >= 400
         THEN FALSE
    ELSE IF /\ IsStr(Get(r.message))
            /\ \E w \in ErrorWords : Contains(Lower(Get(r.message).str), w)
         THEN FALSE
    ELSE TRUE

\* the strings tried: a word in lower case, in capitals or capitalised,
\* between up to MaxPad other characters on each side
Words == ErrorWords \cup {<<"f", "a", "i", "l">>, <<"e", "r", "r", "o">>, <<"o", "k">>}
Upper(s) ==
    [j \in DOMAIN s |-> Capitals[CHOOSE n \in DOMAIN Letters : Letters[n] = s[j]]]
Capitalised(s) == <<Upper(s)[1]>> \o Tail(s)
Pads == UNION {[1..n -> {"x"}] : n \in 0..MaxPad}
Strings ==
    {<<>>} \cup {a \o c \o b : a \in Pads, b \in Pads,
                              c \in UNION {{w, Upper(w), Capitalised(w)} : w \in Words}}
Numbers == {0, 200, 399, 400, 404, 500}
Values ==
    {[type |-> "str", num |-> 0, str |-> x] : x \in Strings}
    \cup {[type |-> ty, num |-> n, str |-> <<>>] : ty \in {"int", "float"}, n \in Numbers}
    \cup {[type |-> "bool", num |-> n, str |-> <<>>] : n \in {0, 1}}

\* what a tool function returns: a dict, with or without the keys error,
\* code and message, or something that is not a dict
Responses ==
    {NoResponse} \cup
    {[dict |-> TRUE, error |-> e, code |-> c, message |-> m] :
        e \in BOOLEAN, c \in Values \cup {Absent}, m \in Values \cup {Absent}}

\* An event of the tool wrapper is [ev, val, what]: the tool gauge set to val
\* with final status what, a completion record with status what, or the
\* wrapper's return or raise.
ToolEvent(ev, val, what) == [ev |-> ev, val |-> val, what |-> what]
\* finally: the status of the gauge event is computed from result again;
\* result is unbound when the body raised
FinalStatus(r, raised) ==
    IF raised THEN "error" ELSE IF IsSuccessfulResponse(r) THEN "success" ELSE "failure"

\* what the body can raise: an Exception, or a BaseException that is not an
\* Exception (asyncio.CancelledError, KeyboardInterrupt, SystemExit)
Raisable == {"Exception", "BaseException"}

\* an `except` clause that records nothing
CaughtNothing(q, x) == q

\* except Exception as e: _record_tool_completion_metrics(..., "error", False)
CaughtException(q, x) ==
    IF x = "Exception" THEN Append(q, ToolEvent("completion", 1, "error")) ELSE q

\* with_tool_metrics: the wrapper is called and sets the gauge to 1 before
\* it awaits the tool function
ToolCalled ==
    /\ tool_events = <<>>
    /\ tool_events' = <<ToolEvent("gauge", 1, "")>>
    /\ UNCHANGED <<response, status, labelVars, clientVars>>

\* with_tool_metrics: the tool function returns r
ToolReturns(r) ==
    /\ Len(tool_events) = 1
    /\ response' = r
    /\ status' = IF IsSuccessfulResponse(r) THEN "success" ELSE "failure"
    /\ tool_events' = tool_events \o
           <<ToolEvent("completion", 1, status'),
             ToolEvent("gauge", 0, FinalStatus(r, FALSE)),
             ToolEvent("return", 0, "")>>
    /\ UNCHANGED <<labelVars, clientVars>>

\* with_tool_metrics: the tool function raises x
ToolRaises(x) ==
    /\ Len(tool_events) = 1
    /\ status' = IF x = "Exception" THEN "error" ELSE status
    /\ tool_events' = CaughtException(tool_events, x) \o
           <<ToolEvent("gauge", 0, FinalStatus(response, TRUE)),
             ToolEvent("raise", 0, x)>>
    /\ UNCHANGED <<response, labelVars, clientVars>>

\* ---- start_api_call / end_api_call ------------------------------------------
\* An event is [ev, n, ok]: start_api_call or end_api_call of the call's n-th
\* physical attempt, ok being end_api_call's success argument.
Started(q) == {j \in DOMAIN q : q[j].ev = "start"}
Ended(q) == {j \in DOMAIN q : q[j].ev = "end"}
\* the attempts whose frame is still open: started, finally not yet run
Open(q) == {q[j].n : j \in Started(q)} \ {q[j].n : j \in Ended(q)}

\* start_api_call(self.client_id, clean_endpoint, method)
StartEvent(q) == Append(q, [ev |-> "start", n |-> Cardinality(Started(q)) + 1, ok |-> FALSE])

\* the j-th open frame of q, counted from the innermost (the latest attempt)
Frame(q, j) == CHOOSE x \in Open(q) : Cardinality({y \in Open(q) : y >= x}) = j

\* end_api_call only for the frame that ends the call
EndEventsInnermostOnly(q, ok) ==
    q \o [j \in 1..(IF Open(q) = {} THEN 0 ELSE 1) |->
             [ev |-> "end", n |-> Frame(q, j), ok |-> ok]]

\* The frames of the call unwind, innermost first, and the finally block of
\* each calls end_api_call(..., api_success); api_success is True only in a
\* frame that got as far as `api_success = True`
EndEvents(q, ok) ==
    q \o [j \in 1..Cardinality(Open(q)) |->
             [ev |-> "end", n |-> Frame(q, j), ok |-> (ok /\ j = 1)]]

\* The call returns entry e; _get_auth_headers builds the headers, the label
\* is computed, start_api_call is called and the request is sent
Returned(t, e, path, Cd) ==
    /\ pc' = [pc EXCEPT ![t] = "http"]
    /\ events' = [events EXCEPT ![t] = StartEvent(@)]
    /\ headers' = [headers EXCEPT ![t] = e.token]
    /\ start' = [start EXCEPT ![t] = 0]
    /\ cold' = IF Cd[t].st = "pending"
               THEN [Cd EXCEPT ![t] = [st |-> "got", token |-> e.token,
                                       expires_at |-> e.expires_at,
                                       refreshed |-> (path = "refresh")]]
               ELSE Cd

\* the POST to the token endpoint is sent
Refreshing(t, st, Cd) ==
    /\ pc' = [pc EXCEPT ![t] = "refreshing"]
    /\ events' = events
    /\ headers' = [headers EXCEPT ![t] = 0]
    /\ start' = [start EXCEPT ![t] = st]
    /\ cold' = Cd

\* the lock taken and a refresh started without looking at the caches again
UnderLockNoRecheck(t, i, A, C, L, st, Cd) ==
    /\ shared_token_cache' = C
    /\ auth_token' = A
    /\ shared_token_locks' = L
    /\ Refreshing(t, st, Cd)

\* async with lock: the local token and the shared entry are checked again,
\* with the time read again, before _refresh_token is called; t holds the
\* lock in L
UnderLock(t, i, A, C, L, st, Cd) ==
    LET k == client_id[i]
        l == TokenLock(i)
    IN  /\ shared_token_cache' = C
        /\ IF IsFresh(A[i], now)
           THEN /\ auth_token' = A
                /\ shared_token_locks' = Released(L, l)
                /\ Returned(t, A[i], "lock_local", Cd)
           ELSE IF IsFresh(C[k], now)
           THEN /\ auth_token' = [A EXCEPT ![i] = C[k]]
                /\ shared_token_locks' = Released(L, l)
                /\ Returned(t, C[k], "lock_shared", Cd)
           ELSE /\ auth_token' = A
                /\ shared_token_locks' = L
                /\ Refreshing(t, st, Cd)

\* _make_request up to its first suspension: ensure_client, then
\* _get_valid_token's local fast path, shared-cache path and lock
Acquire(t, i, rc, A, C, Cd) ==
    LET k == client_id[i]
        l == TokenLock(i)
        L1 == [shared_token_locks EXCEPT ![l].made = TRUE]
    IN  /\ retry_count' = [retry_count EXCEPT ![t] = rc]
        /\ http_client' = EnsuredClient(i)
        /\ opened' = EnsuredOpened(i)
        /\ IF IsFresh(A[i], now)
           THEN /\ auth_token' = A
                /\ shared_token_cache' = C
                /\ UNCHANGED shared_token_locks
                /\ Returned(t, A[i], "local", Cd)
           ELSE IF IsFresh(C[k], now)
           THEN /\ auth_token' = [A EXCEPT ![i] = C[k]]
                /\ shared_token_cache' = C
                /\ UNCHANGED shared_token_locks
                /\ Returned(t, C[k], "shared", Cd)
           ELSE IF LockIsFree(L1, l)
           THEN UnderLock(t, i, A, C, [L1 EXCEPT ![l].holder = t], now, Cd)
           ELSE /\ auth_token' = A
                /\ shared_token_cache' = C
                /\ shared_token_locks' = [L1 EXCEPT ![l].waiters = Append(@, t)]
                /\ pc' = [pc EXCEPT ![t] = "lock_wait"]
                /\ events' = events
                /\ headers' = [headers EXCEPT ![t] = 0]
                /\ start' = [start EXCEPT ![t] = now]
                /\ cold' = Cd

\* get/post/put/delete -> _make_request(retry_count = 0)
StartCall(t, i) ==
    /\ pc[t] = "idle"
    /\ \A u \in Tasks : u < t => pc[u] # "idle"
    /\ scope[i] \in {"made", "in", "out"}
    /\ on' = [on EXCEPT ![t] = i]
    /\ attempts' = [attempts EXCEPT ![t] = <<>>]
    /\ sleeps' = [sleeps EXCEPT ![t] = <<>>]
    /\ invalidatedAt' = [invalidatedAt EXCEPT ![t] = 0]
    /\ result' = [result EXCEPT ![t] = NoResult]
    /\ Acquire(t, i, 0, auth_token, shared_token_cache,
               IF ~answered[client_id[i]]
               THEN [cold EXCEPT ![t].st = "pending"] ELSE cold)
    /\ UNCHANGED <<metricVars, creds, now, scope, client_id, max_retries, closed, exitHow, born,
                   issued, lastIssued, answered, poppedAt, rejected, failedAt>>

\* the waiter at the head of the queue is woken and runs
LockAcquired(t) ==
    LET i == on[t]
        l == TokenLock(i)
        L == shared_token_locks
    IN  /\ pc[t] = "lock_wait"
        /\ L[l].holder = 0
        /\ L[l].waiters # <<>>
        /\ Head(L[l].waiters) = t
        /\ UnderLock(t, i, auth_token, shared_token_cache,
                     [L EXCEPT ![l].holder = t, ![l].waiters = Tail(@)],
                     start[t], cold)
        /\ UNCHANGED <<metricVars, creds, now, scope, client_id, max_retries, http_client, opened,
                       closed, exitHow, born, issued, lastIssued, answered, poppedAt, rejected, failedAt, on,
                       retry_count, attempts, invalidatedAt, sleeps, result>>

\* ---- _refresh_token --------------------------------------------------------
\* expires_in = token_data.get('expires_in', 3600)
ExpiresIn(ei) == IF ei = 0 THEN DefaultExpiresIn ELSE ei

\* the refreshed token kept on the instance only
CacheNotWritten(C, k, e) == C

\* self.__class__._shared_token_cache[key] = {'token': ..., 'expires_at': ...}
CacheWritten(C, k, e) == [C EXCEPT ![k] = e]

\* the token endpoint answers 2xx with an access_token: the token is written
\* to the instance and to the shared cache, the lock is released and the
\* token returned
RefreshOk(t, ei) ==
    LET i == on[t]
        k == client_id[i]
        e == [token |-> issued[k] + 1, expires_at |-> now + ExpiresIn(ei)]
    IN  /\ pc[t] = "refreshing"
        /\ issued' = [issued EXCEPT ![k] = @ + 1]
        /\ lastIssued' = [lastIssued EXCEPT ![k] = e]
        /\ answered' = [answered EXCEPT ![k] = TRUE]
        /\ auth_token' = [auth_token EXCEPT ![i] = e]
        /\ shared_token_cache' = CacheWritten(shared_token_cache, k, e)
        /\ shared_token_locks' = Released(shared_token_locks, TokenLock(i))
        /\ Returned(t, e, "refresh", cold)
        /\ UNCHANGED <<metricVars, creds, now, scope, client_id, max_retries, http_client, opened,
                       closed, exitHow, born, poppedAt, rejected, failedAt, on, retry_count, attempts,
                       invalidatedAt, sleeps, result>>

\* a failed grant that is tried again after a backoff while the budget lasts
RefreshRetried(rc, m) == IF rc < m THEN "sleeping" ELSE "done"

\* `raise` in _refresh_token: nothing between it and the caller of
\* _make_request catches the exception, whatever the retry budget
RefreshRaises(rc, m) == "done"

\* the grant fails: the exception leaves _refresh_token, the lock is released
\* on the way out and the exception leaves _make_request
RefreshFail(t, why) ==
    LET i == on[t]
        k == client_id[i]
    IN  /\ pc[t] = "refreshing"
        /\ answered' = [answered EXCEPT ![k] = TRUE]
        /\ shared_token_locks' = Released(shared_token_locks, TokenLock(i))
        /\ pc' = [pc EXCEPT ![t] = RefreshRaises(retry_count[t], max_retries[i])]
        /\ events' = [events EXCEPT ![t] = EndEvents(@, FALSE)]
        /\ start' = [start EXCEPT ![t] = 0]
        /\ retry_count' = [retry_count EXCEPT ![t] = 0]
        /\ invalidatedAt' = [invalidatedAt EXCEPT ![t] = 0]
        /\ cold' = IF cold[t].st = "pending"
                   THEN [cold EXCEPT ![t].st = "raised"] ELSE cold
        /\ result' = [result EXCEPT ![t] = [kind |-> "raised", val |-> "token_refresh"]]
        /\ failedAt' = [failedAt EXCEPT ![k] = issued[k] + 1]
        /\ UNCHANGED <<metricVars, creds, now, scope, client_id, max_retries, auth_token, http_client,
                       opened, closed, exitHow, born, shared_token_cache, issued, lastIssued,
                       poppedAt, rejected, on, headers, attempts, sleeps>>


\* ---- _make_request ---------------------------------------------------------
\* the call ends with r: a returned value, or an exception that escapes
Finish(t, out, r) ==
    /\ pc' = [pc EXCEPT ![t] = "done"]
    /\ events' = [events EXCEPT ![t] = EndEvents(@, out = "ok")]
    /\ attempts' = [attempts EXCEPT ![t] = Append(@, out)]
    /\ result' = [result EXCEPT ![t] = r]
    /\ headers' = [headers EXCEPT ![t] = 0]
    /\ start' = [start EXCEPT ![t] = 0]
    /\ retry_count' = [retry_count EXCEPT ![t] = 0]
    /\ invalidatedAt' = [invalidatedAt EXCEPT ![t] = 0]
    /\ UNCHANGED <<metricVars, creds, now, scope, client_id, max_retries, auth_token, http_client,
                   opened, closed, exitHow, born, shared_token_cache,
                   shared_token_locks, issued, lastIssued, answered, poppedAt, rejected, failedAt, on,
                   cold, sleeps>>

\* 2xx and a body that parses: return result
OnSuccess(t, p) ==
    /\ pc[t] = "http"
    /\ Finish(t, "ok", [kind |-> "ok", val |-> p])

\* the handler lets the exception go
ExceptionEscapes(out) == [kind |-> "raised", val |-> out]

\* an unexpected exception reported as a failed request
UnexpectedAsRequestFailed(out) == [kind |-> "request_failed", val |-> out]

\* except Exception: return {"error": f"Unexpected error: {e}"}
UnexpectedError(out) == [kind |-> "unexpected", val |-> out]

\* 2xx with a body that is not JSON, or any other exception in the try block
OnException(t, out) ==
    /\ pc[t] = "http"
    /\ Finish(t, out, UnexpectedError(out))

\* case _: raise ValueError("Unsupported HTTP method"): the method is the
\* same in every attempt of a call, so the first attempt ends this way
OnBadMethod(t) ==
    /\ attempts[t] = <<>>
    /\ OnException(t, "bad_method")

\* the 401 handler leaves the instance's token in place
LocalTokenKept(A, i) == A

\* self._auth_token = None; self._token_expires_at = 0
LocalTokenCleared(A, i) == [A EXCEPT ![i] = NoEntry]

\* a 401 handler that leaves the shared entry where it is
CacheKept(C, k) == C

\* self.__class__._shared_token_cache.pop(key, None)
CachePopped(C, k) == [C EXCEPT ![k] = NoEntry]

\* any status is retried like a 401
RetriesAnyStatus(s, rc, m) == rc < m

\* a 401 is retried once more than the budget allows
RetriesStatusInclusive(s, rc, m) == s = "401" /\ rc <= m

\* e.response.status_code == 401 and retry_count < self.max_retries
RetriesStatus(s, rc, m) == s = "401" /\ rc < m

\* except httpx.HTTPStatusError
\* a 401 retry that waits 2^retry_count seconds first
BackoffBefore401Retry(q, rc) == Append(q, Pow2(rc))

\* the 401 handler goes from the cache invalidation straight to the nested
\* _make_request: it has no asyncio.sleep
SleepsAfter401(q, rc) == q

\* a 401 retry that does not use up the budget
RetryCountKeptAfter401(rc) == rc

\* return await self._make_request(..., retry_count + 1) in the 401 handler
RetryCountAfter401(rc) == rc + 1

OnStatusError(t, s) ==
    LET i == on[t]
        k == client_id[i]
    IN  /\ pc[t] = "http"
        /\ IF RetriesStatus(s, retry_count[t], max_retries[i])
           THEN /\ attempts' = [attempts EXCEPT ![t] = Append(@, s)]
                /\ poppedAt' = [poppedAt EXCEPT ![k] = issued[k]]
                /\ rejected' = [rejected EXCEPT ![k] = @ \cup {headers[t]}]
                /\ invalidatedAt' = [invalidatedAt EXCEPT ![t] = issued[k]]
                /\ Acquire(t, i, RetryCountAfter401(retry_count[t]), LocalTokenCleared(auth_token, i),
                           CachePopped(shared_token_cache, k), cold)
                /\ sleeps' = [sleeps EXCEPT ![t] = SleepsAfter401(@, retry_count[t])]
                /\ UNCHANGED <<metricVars, creds, now, scope, client_id, max_retries, closed, exitHow,
                               born, issued, lastIssued, answered, failedAt, on, result>>
           ELSE Finish(t, s, [kind |-> "http_error", val |-> s])

\* a backoff that does not grow
BackoffConstant(rc) == 1

\* 2 ** retry_count
Backoff(rc) == Pow2(rc)

\* the network error is retried once more than the budget allows
RetriesRequestErrorInclusive(rc, m) == rc <= m

\* retry_count < self.max_retries
RetriesRequestError(rc, m) == rc < m

\* except httpx.RequestError
OnRequestError(t) ==
    LET i == on[t]
    IN  /\ pc[t] = "http"
        /\ IF RetriesRequestError(retry_count[t], max_retries[i])
           THEN /\ pc' = [pc EXCEPT ![t] = "sleeping"]
                /\ events' = events
                /\ attempts' = [attempts EXCEPT ![t] = Append(@, "neterr")]
                /\ sleeps' = [sleeps EXCEPT ![t] = Append(@, Backoff(retry_count[t]))]
                /\ UNCHANGED <<metricVars, creds, now, scope, client_id, max_retries, auth_token,
                               http_client, opened, closed, exitHow, born,
                               shared_token_cache, shared_token_locks, issued, lastIssued,
                               answered, poppedAt, rejected, failedAt, on, retry_count, headers, start, cold,
                               invalidatedAt, result>>
           ELSE Finish(t, "neterr", [kind |-> "request_failed", val |-> "neterr"])

\* asyncio.sleep returns: return await self._make_request(..., retry_count + 1)
SleepDone(t) ==
    /\ pc[t] = "sleeping"
    /\ Acquire(t, on[t], retry_count[t] + 1, auth_token, shared_token_cache, cold)
    /\ UNCHANGED <<metricVars, creds, now, scope, client_id, max_retries, closed, exitHow, born,
                   issued, lastIssued, answered, poppedAt, rejected, failedAt, on, attempts, invalidatedAt, sleeps, result>>

\* ---- the clock -------------------------------------------------------------
Tick ==
    /\ now < MaxTime
    /\ now' = now + 1
    /\ UNCHANGED <<metricVars, events, creds, scope, client_id, max_retries, auth_token, http_client, opened,
                   closed, exitHow, born, shared_token_cache, shared_token_locks,
                   issued, lastIssued, answered, poppedAt, rejected, failedAt, pc, on, retry_count, headers, start,
                   cold, attempts, invalidatedAt, sleeps, result>>

\* ---- specifications -------------------------------------------------------
\* Instances are numbered in the order they are constructed, identities in
\* the order they are first used and tasks in the order they call.

\* Concurrent calls on instances that share identities: token acquisition,
\* refresh, invalidation and retry.  The transport is created by
\* ensure_client on the first call.
Next ==
    \/ \E i \in Inst, k \in Ids : Construct(i, k, MaxRetries, RequiredCredentials)
    \/ \E t \in Tasks, i \in Inst : StartCall(t, i)
    \/ \E t \in Tasks : LockAcquired(t)
    \/ \E t \in Tasks, ei \in ExpiresInChoices : RefreshOk(t, ei)
    \/ \E t \in Tasks, why \in RefreshFailures : RefreshFail(t, why)
    \/ \E t \in Tasks, p \in Payloads : OnSuccess(t, p)
    \/ \E t \in Tasks : OnException(t, "bad_json")
    \/ \E t \in Tasks, s \in {"401", "500"} : OnStatusError(t, s)
    \/ \E t \in Tasks : OnRequestError(t)
    \/ \E t \in Tasks : SleepDone(t)
    \/ Tick

Spec == Init /\ [][Next]_vars

\* One logical call with every retry budget up to the default.
NextRetry ==
    \/ \E m \in 0..DefaultMaxRetries : Construct(1, 1, m, RequiredCredentials)
    \/ StartCall(1, 1)
    \/ \E ei \in ExpiresInChoices : RefreshOk(1, ei)
    \/ \E why \in RefreshFailures : RefreshFail(1, why)
    \/ \E p \in Payloads : OnSuccess(1, p)
    \/ OnException(1, "bad_json")
    \/ OnBadMethod(1)
    \/ \E s \in Statuses : OnStatusError(1, s)
    \/ OnRequestError(1)
    \/ SleepDone(1)
    \/ Tick

SpecRetry == Init /\ [][NextRetry]_vars

\* Calls on instances of one identity with every retry budget up to
\* MaxRetries, the budget of no retry included.
NextBudget ==
    \/ \E i \in Inst, m \in 0..MaxRetries : Construct(i, 1, m, RequiredCredentials)
    \/ \E t \in Tasks, i \in Inst : StartCall(t, i)
    \/ \E t \in Tasks : LockAcquired(t)
    \/ \E t \in Tasks, ei \in ExpiresInChoices : RefreshOk(t, ei)
    \/ \E t \in Tasks, why \in RefreshFailures : RefreshFail(t, why)
    \/ \E t \in Tasks, p \in Payloads : OnSuccess(t, p)
    \/ \E t \in Tasks : OnStatusError(t, "401")
    \/ \E t \in Tasks : OnRequestError(t)
    \/ \E t \in Tasks : SleepDone(t)
    \/ Tick

SpecBudget == Init /\ [][NextBudget]_vars

\* a step that ends a wait of the call of t: the token endpoint or the API
\* answers or fails, or the backoff sleep returns
Answered(t) ==
    \/ \E ei \in ExpiresInChoices : RefreshOk(t, ei)
    \/ \E why \in RefreshFailures : RefreshFail(t, why)
    \/ \E p \in Payloads : OnSuccess(t, p)
    \/ OnException(t, "bad_json")
    \/ OnBadMethod(t)
    \/ \E s \in Statuses : OnStatusError(t, s)
    \/ OnRequestError(t)
    \/ SleepDone(t)

\* The same, every HTTP attempt, token refresh and sleep coming to an end.
SpecRetryLive == SpecRetry /\ WF_vars(Answered(1))

\* The label of every endpoint of up to MaxTokens tokens.
InitLabel ==
    /\ NoCalls
    /\ endpoint \in Endpoints
    /\ clean_endpoint = NotComputed
    /\ response = NoResponse
    /\ status = "none"
    /\ tool_events = <<>>

NextLabel == Sanitize

SpecLabel == InitLabel /\ [][NextLabel]_vars

\* One tool invocation under with_tool_metrics.
NextTool ==
    \/ ToolCalled
    \/ \E r \in Responses : ToolReturns(r)
    \/ \E x \in Raisable : ToolRaises(x)

SpecTool == Init /\ [][NextTool]_vars

\* One `async with` block: the instance is constructed and entered, the body
\* makes its calls one after the other and may call close(), the block is
\* left, and calls may follow on the released instance.
Quiet == \A t \in Tasks : pc[t] \in {"idle", "done"}

NextScope ==
    \/ \E args, env \in SUBSET RequiredCredentials :
           Construct(1, 1, MaxRetries, Effective(args, env))
    \/ Enter(1)
    \/ \E how \in {"normal", "return", "exception"} : Exit(1, how)
    \/ Close(1)
    \/ \E t \in Tasks : Quiet /\ StartCall(t, 1)
    \/ \E t \in Tasks, ei \in ExpiresInChoices : RefreshOk(t, ei)
    \/ \E t \in Tasks, why \in RefreshFailures : RefreshFail(t, why)
    \/ \E t \in Tasks, p \in Payloads : OnSuccess(t, p)
    \/ \E t \in Tasks : OnException(t, "bad_json")
    \/ \E t \in Tasks, s \in {"401", "500"} : OnStatusError(t, s)
    \/ \E t \in Tasks : OnRequestError(t)
    \/ \E t \in Tasks : SleepDone(t)
    \/ Tick

SpecScope == Init /\ [][NextScope]_vars

\* ---- properties ------------------------------------------------------------
IdOf(t) == client_id[on[t]]

\* C1: in every reachable state, for every identity, at most one POST to the
\* token endpoint is in flight, whatever the number of instances and however
\* the _get_valid_token calls interleave.
C1_OneRefreshInFlight ==
    \A k \in Ids :
        Cardinality({t \in Tasks : pc[t] = "refreshing" /\ IdOf(t) = k}) <= 1

\* a refresh is in flight for an identity while a call on another instance of
\* the same identity waits for the lock
C1_Witness ==
    \E t, u \in Tasks :
        /\ pc[t] = "refreshing"
        /\ pc[u] = "lock_wait"
        /\ on[t] # on[u]
        /\ IdOf(t) = IdOf(u)

\* The _get_valid_token calls of identity k that started before any response
\* of the token endpoint for k was received
ColdCalls(k) == {t \in Tasks : cold[t].st # "no" /\ IdOf(t) = k}
ColdDone(k) == \A t \in ColdCalls(k) : cold[t].st # "pending"
OneRefreshSameToken(k) ==
    /\ \A t \in ColdCalls(k) : cold[t].st = "got"
    /\ Cardinality({t \in ColdCalls(k) : cold[t].refreshed}) = 1
    /\ \A t, u \in ColdCalls(k) : cold[t].token = cold[u].token

\* C2 as stated: N concurrent calls that start with nothing cached make
\* exactly one network refresh in total and all return the same token.
C2_Original ==
    \A k \in Ids :
        (Cardinality(ColdCalls(k)) >= 2 /\ ColdDone(k)) => OneRefreshSameToken(k)

\* C2: N concurrent calls that start with nothing cached make exactly one
\* network refresh in total and all return the same token, when no refresh
\* fails, the token stays fresh (now < expires_at - 300) until the last of
\* them has returned, and no 401 has cleared the identity's cache entry
\* meanwhile.
C2_OneRefreshWhenTokenStaysFresh ==
    \A k \in Ids :
        ( /\ Cardinality(ColdCalls(k)) >= 2
          /\ ColdDone(k)
          /\ \A t \in ColdCalls(k) :
                 cold[t].st = "got" /\ now < cold[t].expires_at - Margin
          /\ poppedAt[k] = 0 )
        => OneRefreshSameToken(k)

\* two cold calls on two instances of one identity have returned the one
\* token that one of them refreshed
C2_Witness ==
    \E t, u \in Tasks :
        /\ cold[t].st = "got" /\ cold[t].refreshed
        /\ cold[u].st = "got" /\ ~cold[u].refreshed
        /\ on[t] # on[u]
        /\ IdOf(t) = IdOf(u)
        /\ cold[u].token = cold[t].token

\* A step in which task t's _get_valid_token call returns a token; the entry
\* returned is then the instance's own
TokenReturned(t) ==
    /\ pc'[t] = "http"
    /\ pc[t] # "http" \/ retry_count'[t] # retry_count[t]
ByRefresh(t) == pc[t] = "refreshing"
\* current_time of the call: read at the start of _get_valid_token
CallTime(t) == IF pc[t] \in {"lock_wait", "refreshing"} THEN start[t] ELSE now
ReturnedEntry(t) == auth_token'[on'[t]]

\* C3 as stated: every token returned, by any path and with any expires_in,
\* has expires_at more than 300 seconds after the time of the call.
C3_Original ==
    [][\A t \in Tasks : TokenReturned(t) =>
          /\ ReturnedEntry(t).token = headers'[t]
          /\ ReturnedEntry(t).expires_at > CallTime(t) + Margin]_vars

\* C3: a token returned from the local fast path, the shared-cache path or
\* the re-check under the lock has expires_at more than 300 seconds after
\* the (re-)check that returned it, hence after the call; a refreshed token
\* has expires_at = time of the token response + expires_in, which is more
\* than 300 seconds after the call only when expires_in > 300.
C3_MarginUnlessShortLived ==
    [][\A t \in Tasks : TokenReturned(t) =>
          /\ ReturnedEntry(t).token = headers'[t]
          /\ IF ByRefresh(t)
             THEN /\ ReturnedEntry(t).expires_at - now
                         \in {Margin, Margin + 1, DefaultExpiresIn}
                  /\ ReturnedEntry(t).expires_at - now > Margin
                         => ReturnedEntry(t).expires_at > CallTime(t) + Margin
             ELSE /\ ReturnedEntry(t).expires_at > now + Margin
                  /\ ReturnedEntry(t).expires_at > CallTime(t) + Margin]_vars

\* a call took a token from the shared cache (its instance was constructed
\* after the token was issued) with more than 300 seconds left
C3_Witness ==
    \E t \in Tasks :
        /\ pc[t] = "http"
        /\ headers[t] # 0
        /\ born[on[t]] >= headers[t]
        /\ auth_token[on[t]].token = headers[t]
        /\ auth_token[on[t]].expires_at > now + Margin

Last(q) == q[Len(q)]

\* C4: a logical call returns a value for every outcome of its HTTP attempts,
\* on the first attempt and on every retry: the parsed body after a 2xx, a
\* dict with an 'error' key after a non-2xx status, a network error or any
\* other exception; the only exception that escapes is one raised by token
\* acquisition.
C4_ReturnsUnlessTokenFails ==
    \A t \in Tasks : pc[t] = "done" =>
        IF result[t].kind = "raised"
        THEN result[t].val = "token_refresh"
        ELSE /\ attempts[t] # <<>>
             /\ Last(attempts[t]) = "ok"
                    => result[t].kind = "ok" /\ result[t].val \in Payloads
             /\ Last(attempts[t]) \in Statuses
                    => result[t] = [kind |-> "http_error", val |-> Last(attempts[t])]
             /\ Last(attempts[t]) = "neterr" => result[t].kind = "request_failed"
             /\ Last(attempts[t]) = "bad_json" => result[t].kind = "unexpected"

\* a retry ended with an exception other than a status or network error and
\* the call returned the error dict
C4_Witness ==
    \E t \in Tasks :
        /\ pc[t] = "done"
        /\ Len(attempts[t]) >= 2
        /\ Last(attempts[t]) = "bad_json"
        /\ result[t].kind = "unexpected"

OnlyNetErr(t) == \A n \in 1..Len(attempts[t]) : attempts[t][n] = "neterr"

\* C6 as stated: a call whose every attempt fails with a network error makes
\* exactly max_retries + 1 attempts, returns the 'Request failed' dict and
\* does not raise.
C6_Original ==
    \A t \in Tasks : (pc[t] = "done" /\ attempts[t] # <<>> /\ OnlyNetErr(t)) =>
        /\ Len(attempts[t]) = max_retries[on[t]] + 1
        /\ result[t].kind = "request_failed"

\* C6: a call whose every attempt fails with a network error makes exactly
\* max_retries + 1 attempts and returns the 'Request failed' dict, unless the
\* token acquisition before one of its retries raises (the token went stale
\* during the backoff and the refresh failed): then the call stops after
\* fewer attempts and raises.
C6_AttemptsUnlessTokenFails ==
    \A t \in Tasks : (pc[t] = "done" /\ attempts[t] # <<>> /\ OnlyNetErr(t)) =>
        IF result[t].kind = "raised"
        THEN /\ result[t].val = "token_refresh"
             /\ Len(attempts[t]) <= max_retries[on[t]]
        ELSE /\ Len(attempts[t]) = max_retries[on[t]] + 1
             /\ result[t].kind = "request_failed"

\* with max_retries = 2 the call made 3 attempts and returned the error dict
C6_Witness ==
    \E t \in Tasks :
        /\ pc[t] = "done"
        /\ max_retries[on[t]] = 2
        /\ attempts[t] = <<"neterr", "neterr", "neterr">>
        /\ result[t].kind = "request_failed"

\* C7: the sleep before a network-error retry is 2^retry_count seconds,
\* retry_count being that of the failed attempt; a call that only fails with
\* network errors sleeps 1, 2, 4, ... seconds, once per retry and not after
\* the last attempt.
C7_BackoffDoubles ==
    \A t \in Tasks :
        /\ pc[t] = "sleeping"
               => Last(sleeps[t]) = <<1, 2, 4, 8>>[retry_count[t] + 1]
        /\ OnlyNetErr(t) =>
               /\ \A n \in 1..Len(sleeps[t]) : sleeps[t][n] = <<1, 2, 4, 8>>[n]
               /\ Len(sleeps[t]) = Len(attempts[t])
                       - (IF result[t].kind = "request_failed" THEN 1 ELSE 0)

\* the default budget of 3 retries used up: sleeps of 1, 2 and 4 seconds and
\* none after the fourth attempt
C7_Witness ==
    \E t \in Tasks :
        /\ pc[t] = "done"
        /\ result[t].kind = "request_failed"
        /\ Len(attempts[t]) = DefaultMaxRetries + 1
        /\ sleeps[t] = <<1, 2, 4>>

\* A step in which the second attempt of t's call is dispatched after a 401
\* on the first; headers'[t] - invalidatedAt'[t] is then the number of
\* refreshes of the identity that were answered since the invalidation
SecondAfter401(t) == TokenReturned(t) /\ attempts'[t] = <<"401">>
PayloadOfSecond(t) ==
    (pc'[t] = "done" /\ attempts'[t] = <<"401", "ok">>)
        => result'[t].kind = "ok" /\ result'[t].val \in Payloads

\* C5 as stated: 401 then 2xx returns the second attempt's payload, and
\* exactly one network token refresh happens between the two attempts, after
\* the invalidation and before the second dispatch.
C5_Original ==
    [][\A t \in Tasks :
           /\ PayloadOfSecond(t)
           /\ SecondAfter401(t) =>
                  /\ ByRefresh(t)
                  /\ headers'[t] - invalidatedAt'[t] = 1]_vars

\* C5: 401 then 2xx returns the second attempt's payload, and the second
\* attempt carries a token issued by a refresh answered after the
\* invalidation: the call's own refresh, or the token of another caller's
\* refresh taken over at the re-check under the lock, in which case the call
\* makes no refresh of its own between the attempts; when no other call has
\* been made it is exactly one refresh, the call's own.
C5_RetryTokenIssuedAfter401 ==
    [][\A t \in Tasks :
           /\ PayloadOfSecond(t)
           /\ SecondAfter401(t) =>
                  /\ invalidatedAt'[t] >= 1
                  /\ headers'[t] > invalidatedAt'[t]
                  /\ ByRefresh(t) \/ pc[t] = "lock_wait"
                  /\ (\A u \in Tasks \ {t} : pc[u] = "idle")
                         => ByRefresh(t) /\ headers'[t] - invalidatedAt'[t] = 1]_vars

\* 401, then 2xx with the token that was refreshed in between
C5_Witness ==
    \E t \in Tasks :
        /\ pc[t] = "done"
        /\ attempts[t] = <<"401", "ok">>
        /\ result[t].kind = "ok"
        /\ auth_token[on[t]].token = issued[IdOf(t)]
        /\ issued[IdOf(t)] = 2

\* A step in which task t starts a _get_valid_token call of a new attempt
\* with the tokens as they are (no invalidation in the step)
TokenCallStarts(t) == pc[t] \in {"idle", "sleeping"} /\ pc'[t] # pc[t]
\* Instance j was constructed after the last refresh of its identity, and the
\* token of that refresh has more than the margin left
LaterInstance(j) ==
    LET e == lastIssued[client_id[j]]
    IN  e.token # 0 /\ born[j] >= e.token /\ now < e.expires_at - Margin
ReusedWithoutRefresh(t) ==
    /\ pc'[t] = "http"
    /\ headers'[t] = lastIssued[client_id[on'[t]]].token
    /\ issued' = issued

\* C8 as stated: after a successful refresh, an instance constructed later
\* with the same client_id gets that token without a network refresh as long
\* as now < expires_at - 300.
C8_Original ==
    [][\A t \in Tasks : (TokenCallStarts(t) /\ LaterInstance(on'[t]))
           => ReusedWithoutRefresh(t)]_vars

\* C8: after a successful refresh, an instance constructed later with the
\* same client_id gets that token without a network refresh as long as
\* now < expires_at - 300 and no 401 has cleared the identity's cache entry
\* since the refresh.
C8_ReusedUnlessInvalidated ==
    [][\A t \in Tasks :
           ( /\ TokenCallStarts(t)
             /\ LaterInstance(on'[t])
             /\ poppedAt[client_id[on'[t]]] < lastIssued[client_id[on'[t]]].token )
           => ReusedWithoutRefresh(t)]_vars

\* a call on an instance constructed after the refresh carries the cached
\* token, and its instance was not the one that refreshed
C8_Witness ==
    \E t, u \in Tasks :
        /\ pc[t] = "http"
        /\ attempts[t] = <<>>
        /\ headers[t] # 0
        /\ born[on[t]] >= headers[t]
        /\ headers[t] = lastIssued[IdOf(t)].token
        /\ cold[u].refreshed
        /\ on[u] # on[t]
        /\ IdOf(u) = IdOf(t)

\* A step in which t's call finds nothing fresh: it waits for the lock or
\* sends the POST
GoesToRefresh(t) == pc'[t] \in {"lock_wait", "refreshing"} /\ pc'[t] # pc[t]
Stale(e) == e.token = 0 \/ now >= e.expires_at - Margin

\* C9: a cached token, local or shared, is fresh exactly when
\* now < expires_at - 300: a token returned from a cache has more than 300
\* seconds left (301 is enough) and no refresh is made, and a call goes on to
\* refresh only when neither the local nor the shared token has more than
\* 300 seconds left (with exactly 300 it refreshes).
C9_FreshIffBeyondMargin ==
    [][\A t \in Tasks :
           /\ (TokenReturned(t) /\ ~ByRefresh(t)) =>
                  /\ ReturnedEntry(t).token = headers'[t]
                  /\ now < ReturnedEntry(t).expires_at - Margin
                  /\ issued' = issued
           /\ GoesToRefresh(t) =>
                  /\ Stale(auth_token'[on'[t]])
                  /\ Stale(shared_token_cache'[client_id[on'[t]]])]_vars

\* a refresh is in flight while the shared token has exactly 300 seconds left
C9_Witness ==
    \E t \in Tasks :
        /\ pc[t] = "refreshing"
        /\ shared_token_cache[IdOf(t)].token # 0
        /\ shared_token_cache[IdOf(t)].expires_at = now + Margin

\* C10: when an `async with` block is left, normally, by return or by an
\* exception, the transport is closed if one is open and the instance holds
\* none afterwards: every transport it created has been closed exactly once,
\* and an exit with no transport open closes nothing.
C10_ClosedOnExit ==
    [][\A i \in Inst : (scope[i] = "in" /\ scope'[i] = "out") =>
           /\ http_client'[i] = 0
           /\ closed'[i] = opened'[i]
           /\ closed'[i] = closed[i] + http_client[i]
           /\ exitHow'[i] \in {"normal", "return", "exception"}]_vars

\* the block was left by the exception of a failed token refresh and its one
\* transport is closed
C10_Witness ==
    /\ scope[1] = "out"
    /\ exitHow[1] = "exception"
    /\ \E t \in Tasks : pc[t] = "done" /\ result[t].kind = "raised"
    /\ \A t \in Tasks : pc[t] \in {"idle", "done"}
    /\ http_client[1] = 0
    /\ opened[1] = 1
    /\ closed[1] = 1

\* C11: after the `async with` block of an instance was left, a call on that
\* instance fails or needs the scope to be entered again: it does not open a
\* transport.
C11_NoTransportAfterRelease ==
    [][\A t \in Tasks :
           (pc[t] = "idle" /\ pc'[t] # "idle" /\ scope[on'[t]] = "out")
               => /\ http_client'[on'[t]] = 0
                  /\ opened'[on'[t]] = opened[on'[t]]]_vars

\* C12: construction fails at once exactly when one of api_key,
\* refresh_token, client_id, client_secret comes neither from the arguments
\* nor from the environment, and succeeds when all four are there; a failed
\* construction creates no transport, makes no network call and leaves the
\* shared token cache and the lock map as they were.
C12_FailsFastWithoutCredentials ==
    [][\A i \in Inst : (scope[i] = "none" /\ scope'[i] # "none") =>
           /\ scope'[i] = (IF creds'[i] = RequiredCredentials THEN "made" ELSE "failed")
           /\ http_client' = http_client
           /\ opened' = opened
           /\ pc' = pc
           /\ shared_token_cache' = shared_token_cache
           /\ shared_token_locks' = shared_token_locks]_vars

\* a construction failed with client_secret alone missing, and nothing was
\* opened, called or cached
C12_Witness ==
    /\ scope[1] = "failed"
    /\ creds[1] = RequiredCredentials \ {"client_secret"}
    /\ opened[1] = 0
    /\ \A t \in Tasks : pc[t] = "idle"
    /\ \A k \in Ids : shared_token_cache[k] = NoEntry
    /\ \A l \in LockIds : ~shared_token_locks[l].made

\* A step in which an attempt of t's call ends with outcome o
AttemptEnds(t, o) ==
    /\ pc[t] = "http"
    /\ attempts'[t] = Append(attempts[t], o)

\* C13: an attempt that gets an error status other than 401 ends the call at
\* once, whatever budget is left: no further attempt, no sleep, no token
\* invalidation, and the 'HTTP <status>' dict is returned.
C13_OtherStatusNotRetried ==
    [][\A t \in Tasks : \A s \in Statuses \ {"401"} : AttemptEnds(t, s) =>
           /\ pc'[t] = "done"
           /\ result'[t] = [kind |-> "http_error", val |-> s]
           /\ sleeps' = sleeps
           /\ auth_token' = auth_token
           /\ shared_token_cache' = shared_token_cache
           /\ poppedAt' = poppedAt]_vars

\* with the whole default budget left a 403 ended the call, and the token is
\* still held
C13_Witness ==
    \E t \in Tasks :
        /\ pc[t] = "done"
        /\ max_retries[on[t]] = DefaultMaxRetries
        /\ attempts[t] = <<"403">>
        /\ result[t] = [kind |-> "http_error", val |-> "403"]
        /\ sleeps[t] = <<>>
        /\ auth_token[on[t]].token # 0
        /\ shared_token_cache[IdOf(t)] = auth_token[on[t]]

StartsOf(t, n) == {j \in Started(events[t]) : events[t][j].n = n}
EndsOf(t, n) == {j \in Ended(events[t]) : events[t][j].n = n}
\* the attempts of t's call that were dispatched
Dispatched(t) == Len(attempts[t]) + (IF pc[t] = "http" THEN 1 ELSE 0)

\* C14: every attempt that was dispatched has one start_api_call and, once
\* the call is over, exactly one end_api_call after it, whichever way the
\* attempt ended (also when a nested retry raised); an attempt that was not
\* dispatched has none, and the success flag of the end is true exactly when
\* the attempt got a 2xx response that parsed.
C14_OneEndPerAttempt ==
    \A t \in Tasks : \A n \in 1..(Len(events[t]) + 1) :
        /\ Cardinality(StartsOf(t, n)) = (IF n <= Dispatched(t) THEN 1 ELSE 0)
        /\ Cardinality(EndsOf(t, n)) <= Cardinality(StartsOf(t, n))
        /\ \A j \in EndsOf(t, n) :
               /\ \E i \in StartsOf(t, n) : i < j
               /\ events[t][j].ok <=> attempts[t][n] = "ok"
        /\ pc[t] = "done" => Cardinality(EndsOf(t, n)) = Cardinality(StartsOf(t, n))

\* two attempts were dispatched, the refresh before the third raised, and
\* both attempts have their end_api_call
C14_Witness ==
    \E t \in Tasks :
        /\ pc[t] = "done"
        /\ result[t].kind = "raised"
        /\ Len(attempts[t]) = 2
        /\ Cardinality(Started(events[t])) = 2
        /\ Cardinality(Ended(events[t])) = 2

RECURSIVE WithoutIds(_)
\* the endpoint with every segment of exactly 18 digits removed, together
\* with the "/" before it
WithoutIds(s) ==
    IF s = <<>> THEN <<>>
    ELSE IF Len(s) >= 2 /\ s[1] = "/" /\ s[2] \in IdSegments /\ (Len(s) = 2 \/ s[3] = "/")
         THEN WithoutIds(SubSeq(s, 3, Len(s)))
         ELSE <<s[1]>> \o WithoutIds(Tail(s))

\* C15: the metrics label of an endpoint is the endpoint with every segment
\* of exactly 18 digits removed, trailing or mid-path, also when two such
\* segments are adjacent.
C15_LabelStripsEveryId ==
    clean_endpoint # NotComputed => clean_endpoint = WithoutIds(endpoint)

\* a and b are the same letter, in either case
SameLetter(a, b) ==
    \E n \in DOMAIN Letters : {a, b} \subseteq {Letters[n], Capitals[n]}
\* s contains the word w, the case of the letters not counting
ContainsAnyCase(s, w) ==
    \E j \in 0..(Len(s) - Len(w)) : \A n \in 1..Len(w) : SameLetter(s[j + n], w[n])
IsErrorCode(v) ==
    \/ v.type = "str" /\ ContainsAnyCase(v.str, ErrorWord)
    \/ v.type = "int" /\ v.num >= 400
IsErrorMessage(v) ==
    v.type = "str" /\ \E w \in ErrorWords : ContainsAnyCase(v.str, w)

\* C16: the result of a tool is classified as success exactly when it is a
\* dict with no error key, no code that is an error code and no message
\* string with an error word in it, the case of the letters not counting;
\* every other result is a failure, and the status recorded is "success"
\* or "failure" accordingly.
C16_SuccessIffNoErrorIndicator ==
    status \in {"success", "failure"} =>
        (status = "success" <=>
            /\ response.dict
            /\ ~response.error
            /\ ~IsErrorCode(response.code)
            /\ ~IsErrorMessage(response.message))

\* a dict whose only indicator is a code string with the word not all in
\* lower case was classified as a failure
C16_Witness ==
    /\ status = "failure"
    /\ response.dict /\ ~response.error
    /\ response.code.type = "str"
    /\ ~Contains(response.code.str, ErrorWord)
    /\ ~IsErrorMessage(response.message)

\* the step in which the grant of t's refresh fails: the POST to the token
\* endpoint is over and no token was issued
GrantFails(t) ==
    /\ pc[t] = "refreshing"
    /\ pc'[t] # "refreshing"
    /\ issued'[IdOf(t)] = issued[IdOf(t)]

\* C17: when the grant fails, _get_valid_token raises after its one POST:
\* the step ends the call with the exception, there is no second POST and
\* no backoff sleep, no token is stored or returned and no request is sent.
C17_RefreshFailureRaises ==
    [][\A t \in Tasks : GrantFails(t) =>
            /\ pc'[t] = "done"
            /\ result'[t] = [kind |-> "raised", val |-> "token_refresh"]
            /\ sleeps' = sleeps
            /\ attempts' = attempts
            /\ headers'[t] = 0
            /\ auth_token' = auth_token
            /\ shared_token_cache' = shared_token_cache
            /\ shared_token_locks'[TokenLock(on[t])].holder # t]_vars

\* a grant failed while retries were left: the call raised without a sleep
C17_Witness ==
    \E t \in Tasks :
        /\ pc[t] = "done"
        /\ result[t] = [kind |-> "raised", val |-> "token_refresh"]
        /\ attempts[t] = <<"401">>
        /\ max_retries[on[t]] > 1
        /\ sleeps[t] = <<>>

\* t holds the lock of identity k
HoldsLock(t, k) ==
    /\ on[t] # 0
    /\ IdOf(t) = k
    /\ shared_token_locks[TokenLock(on[t])].holder = t

\* C18: every change of the shared cache entry of an identity, the write of
\* a refreshed token and the removal on a 401 alike, is made by a task that
\* holds the lock of that identity: no step changes the entry while the
\* lock is free or held by another task.
C18_CacheMutatedUnderLock ==
    [][\A k \in Ids :
          shared_token_cache'[k] # shared_token_cache[k] =>
              \E t \in Tasks :
                  /\ HoldsLock(t, k)
                  /\ pc[t] = "refreshing"
                  /\ pc'[t] # "refreshing"]_vars

\* C19: the 401 path and the network-error path count their retries in one
\* retry_count: whatever the outcomes of the attempts, a call dispatches at
\* most max_retries + 1 attempts and makes at most max_retries retries, and
\* it ends when every attempt, refresh and sleep ends.
C19_SharedBudgetAndTermination ==
    /\ [](\A t \in Tasks : on[t] # 0 =>
             /\ Dispatched(t) <= max_retries[on[t]] + 1
             /\ retry_count[t] <= max_retries[on[t]])
    /\ \A t \in Tasks : (pc[t] \notin {"idle", "done"}) ~> (pc[t] = "done")

\* a call with the default budget ended after four attempts that mix 401
\* and network errors
C19_Witness ==
    \E t \in Tasks :
        /\ pc[t] = "done"
        /\ max_retries[on[t]] = DefaultMaxRetries
        /\ attempts[t] = <<"401", "neterr", "401", "neterr">>

\* the step in which the attempt of t in flight ends with a network error
\* and a retry is to follow
NetworkErrorRetry(t) ==
    /\ pc[t] = "http"
    /\ attempts'[t] = Append(attempts[t], "neterr")
    /\ pc'[t] = "sleeping"

\* C20: a backoff sleep is made only between an attempt that failed with a
\* network error and its retry: a step that adds a sleep, or that leaves the
\* call sleeping, is such an attempt's end, so there is no sleep after a
\* 401, another HTTP status, an unexpected exception or a success, and a
\* call sleeps as often as it retried after a network error.
C20_SleepOnlyAfterNetworkError ==
    /\ [][\A t \in Tasks :
             /\ sleeps'[t] # sleeps[t] =>
                    /\ NetworkErrorRetry(t)
                    /\ Len(sleeps'[t]) = Len(sleeps[t]) + 1
             /\ (pc'[t] = "sleeping" /\ pc[t] # "sleeping") => NetworkErrorRetry(t)]_vars
    /\ [](\A t \in Tasks :
             Len(sleeps[t]) =
                 Cardinality({n \in DOMAIN attempts[t] : attempts[t][n] = "neterr"})
                     - (IF result[t].kind = "request_failed" THEN 1 ELSE 0))

\* a call got a 401, a network error and a 500: it slept once, after the
\* network error
C20_Witness ==
    \E t \in Tasks :
        /\ pc[t] = "done"
        /\ attempts[t] = <<"401", "neterr", "500">>
        /\ Len(sleeps[t]) = 1

\* the step in which an attempt of t gets a 401 and is retried
Retried401(t) ==
    /\ pc[t] = "http"
    /\ attempts'[t] = Append(attempts[t], "401")
    /\ pc'[t] # "done"
\* the step in which the attempt that follows a 401 of t is dispatched
DispatchAfter401(t) ==
    /\ pc[t] # "http"
    /\ pc'[t] = "http"
    /\ attempts[t] # <<>>
    /\ Last(attempts[t]) = "401"

\* C21: a 401 with retries left clears the local token of the instance and
\* the shared entry of its identity before the retry starts, and the retry
\* is dispatched with a token of a refresh that was answered after the
\* invalidation (the call's own, or another caller's taken over under the
\* lock), never with a token that was cached when the 401 arrived.
C21_RetryNeverUsesRejectedCache ==
    [][\A t \in Tasks :
           /\ Retried401(t) =>
                  /\ auth_token'[on[t]] = NoEntry
                  /\ shared_token_cache'[IdOf(t)] = NoEntry
                  /\ invalidatedAt'[t] = issued[IdOf(t)]
                  /\ pc'[t] \in {"refreshing", "lock_wait"}
           /\ DispatchAfter401(t) =>
                  /\ pc[t] \in {"refreshing", "lock_wait"}
                  /\ headers'[t] > invalidatedAt[t]
                  /\ headers'[t] <= issued'[IdOf(t)]]_vars

\* the retry after a 401 is in flight with a token issued after the
\* invalidation, while another call of the identity is under way
C21_Witness ==
    \E t \in Tasks :
        /\ pc[t] = "http"
        /\ attempts[t] # <<>>
        /\ Last(attempts[t]) = "401"
        /\ invalidatedAt[t] >= 1
        /\ headers[t] > invalidatedAt[t]
        /\ \E u \in Tasks \ {t} : pc[u] \notin {"idle", "done"} /\ IdOf(u) = IdOf(t)

\* the step in which instance i is released: its block is left, or close()
\* closes its transport
Release(i) ==
    /\ scope[i] = "in"
    /\ scope'[i] = "out" \/ closed'[i] # closed[i]

\* C22: releasing a client, by leaving its block or by close(), leaves the
\* shared token cache and the map of locks as they are: the entry of its
\* identity has the same token and expires_at before and after, for a later
\* instance of the identity to reuse.
C22_ReleaseKeepsSharedCache ==
    [][\A i \in Inst : Release(i) =>
           /\ shared_token_cache' = shared_token_cache
           /\ shared_token_locks' = shared_token_locks]_vars

\* the instance was released with a transport to close, and the token of
\* its identity is still in the shared cache
C22_Witness ==
    /\ scope[1] = "out"
    /\ closed[1] >= 1
    /\ shared_token_cache[client_id[1]].token # 0
    /\ shared_token_locks[TokenLock(1)].made

\* the tasks that take a step: each step of a call changes its position,
\* its attempts or its result
Stepping(t) == <<pc[t], attempts[t], result[t]>>' # <<pc[t], attempts[t], result[t]>>

\* C23: token acquisition for different identities is independent.  A call
\* only ever waits for the lock of its own identity, held by a call of that
\* identity; a step of a call for one identity changes neither the cache
\* entry nor the lock of another; and a lock, once made for an identity, is
\* never replaced.
C23_IdentitiesIndependent ==
    /\ [](\A t \in Tasks : pc[t] = "lock_wait" =>
             LET L == shared_token_locks[TokenLock(on[t])]
             IN  /\ \E n \in DOMAIN L.waiters : L.waiters[n] = t
                 /\ L.holder # 0 => (L.holder # t /\ IdOf(L.holder) = IdOf(t)))
    /\ [][\A k \in Ids :
             /\ shared_token_cache'[k] # shared_token_cache[k]
                    => \A t \in Tasks : Stepping(t) => client_id[on'[t]] = k
             /\ \A i \in Inst :
                    (client_id[i] = k /\ shared_token_locks'[TokenLock(i)] # shared_token_locks[TokenLock(i)])
                        => \A t \in Tasks : Stepping(t) => client_id[on'[t]] = k
             /\ \A i \in Inst :
                    (client_id[i] = k /\ shared_token_locks[TokenLock(i)].made)
                        => shared_token_locks'[TokenLock(i)].made]_vars

\* refreshes of two identities are in flight at once, each under its lock
C23_Witness ==
    \E t, u \in Tasks :
        /\ pc[t] = "refreshing" /\ pc[u] = "refreshing"
        /\ IdOf(t) # IdOf(u)
        /\ shared_token_locks[TokenLock(on[t])].holder = t
        /\ shared_token_locks[TokenLock(on[u])].holder = u

\* the step in which an attempt of t ends with an exception that is neither
\* a status error nor a network error
EndsUnexpectedly(t) ==
    /\ pc[t] = "http"
    /\ \E x \in Unexpected : attempts'[t] = Append(attempts[t], x)

\* C24: an attempt that ends with an exception other than an HTTP status
\* error or a network error (an unsupported method, a 2xx body that is not
\* JSON) is recorded as one failure and ends the call: no further attempt,
\* no sleep, and the 'Unexpected error' dict is returned.
C24_UnexpectedErrorEndsCall ==
    [][\A t \in Tasks : EndsUnexpectedly(t) =>
           /\ pc'[t] = "done"
           /\ result'[t] = [kind |-> "unexpected", val |-> Last(attempts'[t])]
           /\ sleeps' = sleeps
           /\ retry_count'[t] = 0
           /\ Cardinality(Started(events'[t])) = Len(attempts'[t])
           /\ \A j \in Ended(events'[t]) : ~events'[t][j].ok
           /\ Cardinality(Ended(events'[t])) = Len(attempts'[t])]_vars

\* a call with an unsupported method ended at once with the error dict
\* although retries were left
C24_Witness ==
    \E t \in Tasks :
        /\ pc[t] = "done"
        /\ attempts[t] = <<"bad_method">>
        /\ max_retries[on[t]] >= 1
        /\ result[t] = [kind |-> "unexpected", val |-> "bad_method"]
        /\ sleeps[t] = <<>>

ToolEvents(ev) == {j \in DOMAIN tool_events : tool_events[j].ev = ev}
GaugeSet(v) == {j \in ToolEvents("gauge") : tool_events[j].val = v}
ToolEnded == ToolEvents("return") \cup ToolEvents("raise") # {}
\* the gauge goes to 1 first, once, and when the invocation is over it has
\* gone to 0 once, after every completion record, with the status the
\* invocation ended with
ToolPair ==
    /\ tool_events # <<>> => GaugeSet(1) = {1}
    /\ ~ToolEnded => ToolEvents("completion") \cup GaugeSet(0) = {}
    /\ ToolEnded =>
           /\ Cardinality(GaugeSet(0)) = 1
           /\ \A j \in ToolEvents("completion"), g \in GaugeSet(0) : 1 < j /\ j < g
           /\ \A j \in ToolEvents("completion") :
                  /\ tool_events[j].what \in {"success", "failure", "error"}
                  /\ tool_events[j].what = status
                  /\ tool_events[j].what = "error" <=> ToolEvents("raise") # {}
           /\ \A g \in GaugeSet(0) :
                  tool_events[g].what = (IF ToolEvents("raise") # {} THEN "error" ELSE status)
           /\ Cardinality(ToolEvents("return") \cup ToolEvents("raise")) = 1

\* C25 as stated: every invocation makes exactly one completion record, on
\* the normal path and when the body raises.
C25_Original ==
    /\ ToolPair
    /\ ToolEnded => Cardinality(ToolEvents("completion")) = 1

\* C25: every invocation sets the gauge to 1 before the body and to 0 after
\* it, and makes exactly one completion record when the body returns
\* (success or failure) or raises an Exception (error, re-raised); when the
\* body raises a BaseException that is not an Exception, such as a
\* cancellation, no completion record is made, the gauge still goes to 0
\* with status error, and the exception goes to the caller.
C25_OneCompletionUnlessBaseException ==
    /\ ToolPair
    /\ ToolEnded =>
           Cardinality(ToolEvents("completion")) =
               (IF \E j \in ToolEvents("raise") : tool_events[j].what = "BaseException"
                THEN 0 ELSE 1)

\* the body raised an Exception: one completion record with status error
\* between the two gauge events, and the exception went on
C25_Witness ==
    /\ Len(tool_events) = 4
    /\ tool_events[2] = ToolEvent("completion", 1, "error")
    /\ tool_events[3] = ToolEvent("gauge", 0, "error")
    /\ tool_events[4] = ToolEvent("raise", 0, "Exception")

\* C26: a 401 for a request sent with token T removes the shared entry of
\* the identity only if the entry still holds T: a newer token that another
\* caller has installed meanwhile survives the late 401, which then causes
\* no further refresh.
C26_InvalidationSparesNewerToken ==
    [][\A t \in Tasks :
           ( /\ Retried401(t)
             /\ shared_token_cache[IdOf(t)].token # 0
             /\ shared_token_cache[IdOf(t)].token # headers[t] )
           => /\ shared_token_cache'[IdOf(t)] = shared_token_cache[IdOf(t)]
              /\ pc'[t] # "refreshing"]_vars

\* the step in which an attempt of t is dispatched
Dispatch(t) == pc[t] # "http" /\ pc'[t] = "http"

\* C27: once a 401 has made an instance invalidate token T of an identity,
\* no instance of the identity dispatches a later request that carries T:
\* an instance that still holds T as its local copy acquires a token anew
\* before its next attempt.
C27_RejectedTokenNeverSentAgain ==
    [][\A t \in Tasks :
           Dispatch(t) => headers'[t] \notin rejected[client_id[on'[t]]]]_vars

\* C28: within one call the events of successive attempts do not overlap:
\* the end_api_call of attempt n comes before the start_api_call of attempt
\* n + 1, and the duration it reports covers attempt n only, so it is
\* emitted as soon as the attempt is over: no frame is open while the call
\* sleeps or acquires the token for its next attempt, and at most one while
\* an attempt is in flight.
C28_AttemptEventsSequential ==
    \A t \in Tasks :
        /\ \A n \in 1..Len(events[t]) :
               \A i \in StartsOf(t, n + 1) : \E j \in EndsOf(t, n) : j < i
        /\ pc[t] \in {"sleeping", "lock_wait", "refreshing"} => Open(events[t]) = {}
        /\ pc[t] = "http" => Cardinality(Open(events[t])) = 1

\* the last refresh of identity k failed: none has been answered with a
\* token since
LastRefreshFailed(k) == failedAt[k] = issued[k] + 1

\* C29: a failed refresh leaves the token state as it was and the lock free:
\* the local token and expiry of the instance and the shared entry are the
\* same before and after, and the lock is released; a later token call for
\* the identity, from any instance, is then not blocked and makes a new
\* refresh attempt.
C29_FailedRefreshLeavesStateAndLock ==
    [][\A t \in Tasks :
           /\ GrantFails(t) =>
                  /\ auth_token' = auth_token
                  /\ shared_token_cache' = shared_token_cache
                  /\ shared_token_locks'[TokenLock(on[t])] =
                         [shared_token_locks[TokenLock(on[t])] EXCEPT !.holder = 0]
           /\ ( /\ TokenCallStarts(t)
                /\ LastRefreshFailed(client_id[on'[t]])
                /\ LockIsFree(shared_token_locks, TokenLock(on'[t])) )
              => pc'[t] = "refreshing"]_vars

\* ---- C30 ------------------------------------------------------------------
\* the step in which an attempt of t gets a 401 with the budget used up
Exhausted401(t) ==
    /\ pc[t] = "http"
    /\ attempts'[t] = Append(attempts[t], "401")
    /\ retry_count[t] = max_retries[on[t]]

\* the token a call on instance i is given without a refresh, 0 when none
Reusable(i) ==
    IF IsFresh(auth_token[i], now) THEN auth_token[i].token
    ELSE IF IsFresh(shared_token_cache[client_id[i]], now)
         THEN shared_token_cache[client_id[i]].token
         ELSE 0

\* C30: a 401 when the retry budget is used up (retry_count = max_retries,
\* also with max_retries = 0) ends the call with the 'HTTP 401' dict and
\* leaves the local token of the instance and the shared entry as they
\* are.  The rejected token stays where it was: a local token or a shared
\* entry that has not expired changes only in the 401 handler of a call
\* with budget, and a call that finds one is sent with it.
C30_Exhausted401KeepsToken ==
    [][/\ \A t \in Tasks : Exhausted401(t) =>
              /\ pc'[t] = "done"
              /\ result'[t] = [kind |-> "http_error", val |-> "401"]
              /\ auth_token' = auth_token
              /\ shared_token_cache' = shared_token_cache
              /\ rejected' = rejected
              /\ issued' = issued
       /\ \A i \in Inst :
              (IsFresh(auth_token[i], now) /\ auth_token'[i] # auth_token[i])
                  => \E t \in Tasks : on[t] = i /\ Retried401(t)
       /\ \A k \in Ids :
              (IsFresh(shared_token_cache[k], now)
                   /\ shared_token_cache'[k] # shared_token_cache[k])
                  => \E t \in Tasks : IdOf(t) = k /\ Retried401(t)
       /\ \A t \in Tasks :
              (TokenCallStarts(t) /\ Reusable(on'[t]) # 0)
                  => /\ Dispatch(t)
                     /\ headers'[t] = Reusable(on'[t])
                     /\ issued' = issued]_vars

\* with max_retries = 0 a call ended on its first 401, and another call on
\* the instance is under way with the only token ever issued, which is
\* still the instance's and the cache's
C30_Witness ==
    \E t, u \in Tasks :
        /\ pc[t] = "done"
        /\ max_retries[on[t]] = 0
        /\ attempts[t] = <<"401">>
        /\ result[t] = [kind |-> "http_error", val |-> "401"]
        /\ on[u] = on[t]
        /\ pc[u] = "http"
        /\ issued[IdOf(t)] = 1
        /\ headers[u] = 1
        /\ auth_token[on[t]].token = 1
        /\ shared_token_cache[IdOf(t)].token = 1

====
